---- MODULE Spec2Model ----
(***************************************************************************)
(* mediadupes: the scan / reduce / copy pipeline of main.go.               *)
(*                                                                         *)
(* Six specifications share the definitions of this module:                *)
(*   SpecReduce  deduplicate() alone, fed every arrival order of every     *)
(*               input set drawn from a small file universe;               *)
(*   SpecWalk    walkFiles() alone, entry by entry over a source tree,     *)
(*               for several source strings, exclusion patterns and both   *)
(*               traversal modes;                                          *)
(*   Spec        runDedup(): enumerator, workers, closer, reducer, copy    *)
(*               goroutines and the progress channel, on a fixed disk;     *)
(*   SpecLive    the runs of Spec on an existing source, under fair        *)
(*               scheduling and a consuming progress sink;                 *)
(*   SpecCopy    copyFiles() from the call on, over the maps of short      *)
(*               input sequences, in both destination layouts;             *)
(*   SpecScan    the scan of a plan run on disks whose metadata lookups    *)
(*               end in every way getCreationDate tells apart.             *)
(* A step of a goroutine runs from one blocking operation (channel send or *)
(* receive, WaitGroup wait) to the next.                                   *)
(***************************************************************************)
EXTENDS Integers, Sequences, FiniteSets, TLC

\* ------------------------------------------------------------------ bounds
\* Largest file size (bytes) a stat may report.
MaxSize == 2
\* Worker goroutines (the --workers flag).
NumWorkers == 2
\* Copy permits (the --copy-parallel flag).
CopyParallel == 1
\* Channel capacities, scaled down from the code's 1000, 100 and 10.
PathChanCap == 1
ResultChanCap == 1
ProgChanCap == 1

\* --------------------------------------------------------- the file universe
\* Paths are kept structured so that filepath.Base / filepath.Ext /
\* strings.TrimSuffix can be computed instead of assumed.
ImageExtList == {".jpg"}
VideoExtList == {".mp4"}

MkPath(d, s, e) == [dir |-> d, stem |-> s, ext |-> e]

\* Four files under the source root: two share stem and extension in different
\* directories, one shares the stem with another media type, one is alone.
Files ==
    { MkPath("x", "a", ".jpg"), MkPath("y", "a", ".jpg"),
      MkPath("x", "a", ".mp4"), MkPath("x", "b", ".jpg") }

Sizes == 1..MaxSize

\* filepath.Ext(path)
Ext(p) == p.ext
\* filepath.Base(path): the last element, here <<stem, ext>>
Base(p) == <<p.stem, p.ext>>
\* strings.TrimSuffix(filepath.Base(path), ext)
TrimSuffixExt(b, e) == IF b[2] = e THEN b[1] ELSE b
\* filepath.Rel(source, path) for a path under the source root
Rel(p) == <<p.dir, p.stem, p.ext>>

\* The FileInfo a worker builds for path p when stat reported size sz and
\* getCreationDate reported (date, meta).
FileInfo(p, sz, meta, date) ==
    [ Path         |-> p,
      RelPath      |-> Rel(p),
      Size         |-> sz,
      HasMeta      |-> meta,
      BaseName     |-> TrimSuffixExt(Base(p), Ext(p)),
      CreationDate |-> date,
      IsImage      |-> Ext(p) \in ImageExtList ]

\* Every FileInfo the workers can produce for a file of the universe.  A
\* record has a creation date (1) exactly when the lookup succeeded.
AllInfos ==
    { FileInfo(p, sz, m, IF m THEN 1 ELSE 0) : p \in Files, sz \in Sizes, m \in BOOLEAN }

VARIABLES
    enableDedup,     \* runDedup's enableDedup flag (!--no-dedup)
    loopVarPerIter,  \* TRUE: each iteration of "for info := range" has its own
                     \* variable (Go >= 1.22 language version); FALSE: one variable
                     \* for the whole loop (Go 1.21, the README's minimum)
    dedup,           \* map[string]*FileInfo: key -> address of a loop variable
    cells,           \* the loop variables' storage: address -> FileInfo
    stats,           \* Stats
    received,        \* history: the records deduplicate has ranged over, in order
    pending,         \* SpecReduce: records not yet delivered to the reducer
    planOnly,        \* runDedup's planOnly flag (--plan)
    checkMeta,       \* runDedup's checkMeta flag (!--no-meta)
    oneDir,          \* runDedup's oneDir flag (--one-dir)
    source,          \* runDedup's source argument (--source), a string
    recursive,       \* runDedup's recursive flag (!--no-recursive)
    excludePatterns, \* runDedup's excludePatterns, a sequence of strings
    sourceExists,    \* disk: os.Stat(source) does not report "not exist"
    rootReadable,    \* disk: the source root can be listed
    lookup,          \* disk: what exiftool's metadata lookup gives for each file
    enqueued,        \* history: the paths walkFiles has put on pathChan, in order
    toWalk,          \* walkFiles: the paths the traversal has still to visit
    pathChan,        \* buffered chan string
    pathClosed,      \* close(pathChan) has run
    resultChan,      \* buffered chan FileInfo
    resultClosed,    \* close(resultChan) has run
    sendOnClosed,    \* a worker sent on the closed resultChan (a panic)
    progChan,        \* buffered chan progressMsg: the number of events in it
    doneSent,        \* history: the number of done events sent on progChan
    wpc,             \* position of each worker goroutine
    winfo,           \* the FileInfo (or failed path) a worker holds until it is sent or reported
    wg,              \* runDedup's sync.WaitGroup counter
    et,              \* each worker goroutine's exiftool client, 0 before it has one
    closed,          \* the exiftool clients whose Close() has run
    mpc,             \* position of runDedup's own goroutine
    processed, unique, copied, failedScan, failedCopy,   \* the atomic counters
    statFailed,      \* history: the paths whose os.Stat failed
    cpc,             \* position of each copy goroutine, by map key
    sem,             \* copyFiles: permits held
    copyFate,        \* history: how each survivor's copy ended
    destOf,          \* history: the destPath each copy goroutine computed, by map key
    stamped          \* history: how os.Chtimes ended for the copies that called it, by map key

rvars == <<enableDedup, loopVarPerIter, dedup, cells, stats, received, pending>>
cfgvars == <<planOnly, checkMeta, oneDir, source, recursive, excludePatterns, sourceExists, rootReadable, lookup>>
chanvars == <<toWalk, enqueued, pathChan, pathClosed, resultChan, resultClosed, sendOnClosed, progChan, doneSent>>
wvars == <<wpc, winfo, wg, et, closed>>
ctrvars == <<processed, unique, copied, failedScan, failedCopy, statFailed>>
cvars == <<cpc, sem, copyFate, destOf, stamped>>
pvars == <<cfgvars, chanvars, wvars, ctrvars, cvars, mpc>>
vars == <<rvars, pvars>>

Workers == 1..NumWorkers

\* What a worker holds between two paths: nothing.
NoInfo == [none |-> TRUE]

\* ------------------------------------------------------------- deduplicate
EmptyMap == [k \in {} |-> 0]

ZeroStats ==
    [ TotalSize |-> 0, UniqueSize |-> 0, TotalImages |-> 0, TotalVideos |-> 0,
      UniqueImages |-> 0, UniqueVideos |-> 0, WithMeta |-> 0, WithoutMeta |-> 0 ]

\* updateCounters(info, add)
updateCounters(st, info, add) ==
    LET delta == IF add THEN 1 ELSE -1 IN
    IF info.IsImage
      THEN [st EXCEPT !.UniqueImages = @ + delta]
      ELSE [st EXCEPT !.UniqueVideos = @ + delta]

countTotals_MetaOnly(st, info) ==
    LET s1 == [st EXCEPT !.TotalSize = @ + info.Size]
        s2 == IF info.IsImage THEN [s1 EXCEPT !.TotalImages = @ + 1]
                              ELSE [s1 EXCEPT !.TotalVideos = @ + 1]
    IN  IF info.HasMeta THEN [s2 EXCEPT !.WithMeta = @ + 1] ELSE s2

\* The unconditional head of the loop body: totals, type and metadata counts.
countTotals(st, info) ==
    LET s1 == [st EXCEPT !.TotalSize = @ + info.Size]
        s2 == IF info.IsImage THEN [s1 EXCEPT !.TotalImages = @ + 1]
                              ELSE [s1 EXCEPT !.TotalVideos = @ + 1]
    IN  IF info.HasMeta THEN [s2 EXCEPT !.WithMeta = @ + 1]
                        ELSE [s2 EXCEPT !.WithoutMeta = @ + 1]

\* shouldReplace := (info.HasMeta && !existing.HasMeta) ||
\*                  (info.HasMeta == existing.HasMeta && info.Size > existing.Size)
shouldReplace(info, existing) ==
    \/ info.HasMeta /\ ~existing.HasMeta
    \/ info.HasMeta = existing.HasMeta /\ info.Size > existing.Size

\* deduplicate stores &info, the address of the variable of
\* "for info := range resultChan" (main.go:332, 342, 353).  What that address
\* is depends on the language version the module is built with, which the
\* sources do not fix (the README asks for "Go 1.21+"): from Go 1.22 on each
\* iteration has a fresh variable, before that the loop has a single one that
\* every receive overwrites.  Both builds are modelled: address n for the
\* n-th iteration (n counted from 1), or address 0 for all of them.
AddrOfInfo(perIter, n) == IF perIter THEN n ELSE 0

\* The map key of a record.
KeyOf(dedupOn, info) == IF dedupOn THEN info.BaseName ELSE info.Path

\* Store v at address a.
Store(mem, a, v) == [x \in DOMAIN mem \cup {a} |-> IF x = a THEN v ELSE mem[x]]

\* dedup[key] = &info
Put(m, key, a) == [x \in DOMAIN m \cup {key} |-> IF x = key THEN a ELSE m[x]]

\* One iteration of "for info := range resultChan" on the record rec: the
\* receive assigns the loop variable first, then the body runs on it.
LoopBody(dedupOn, perIter, m, mem, st, n, rec) ==
    LET a    == AddrOfInfo(perIter, n)
        mem1 == Store(mem, a, rec)
        info == mem1[a]
        st1  == countTotals(st, info)
        key  == KeyOf(dedupOn, info)
    IN  IF ~dedupOn
          THEN [ dedup |-> Put(m, key, a), cells |-> mem1,
                 stats |-> updateCounters([st1 EXCEPT !.UniqueSize = @ + info.Size], info, TRUE) ]
        ELSE IF key \notin DOMAIN m
          THEN [ dedup |-> Put(m, key, a), cells |-> mem1,
                 stats |-> updateCounters([st1 EXCEPT !.UniqueSize = @ + info.Size], info, TRUE) ]
        ELSE LET existing == mem1[m[key]] IN
             IF shouldReplace(info, existing)
               THEN [ dedup |-> Put(m, key, a), cells |-> mem1,
                      stats |-> updateCounters(
                                  updateCounters(
                                    [st1 EXCEPT !.UniqueSize = @ - existing.Size + info.Size],
                                    existing, FALSE),
                                  info, TRUE) ]
               ELSE [ dedup |-> m, cells |-> mem1, stats |-> st1 ]

\* The reducer consumes rec.
Reduce(rec) ==
    LET r == LoopBody(enableDedup, loopVarPerIter, dedup, cells, stats, Len(received) + 1, rec)
    IN  /\ dedup' = r.dedup
        /\ cells' = r.cells
        /\ stats' = r.stats
        /\ received' = Append(received, rec)

\* The record stored under key k, as the copy stage and the summary read it.
Survivor(k) == cells[dedup[k]]

\* deduplicate run to the end on the sequence seq.
RECURSIVE Fold(_, _, _, _)
Fold(dedupOn, perIter, seq, n) ==
    IF n = 0 THEN [dedup |-> EmptyMap, cells |-> EmptyMap, stats |-> ZeroStats]
    ELSE LET prev == Fold(dedupOn, perIter, seq, n - 1)
         IN  LoopBody(dedupOn, perIter, prev.dedup, prev.cells, prev.stats, n, seq[n])

\* ------------------------------------------------- walkFiles: the filters
\* For the traversal a path is a string, a sequence of one-character strings,
\* so that filepath.Base, filepath.Ext, filepath.Match and strings.Contains
\* are computed on its characters.
Sep == "/"

\* The largest element of a non-empty set of integers.
MaxOf(S) == CHOOSE x \in S : \A y \in S : y <= x

\* filepath.Join(dir, name) for a clean dir and a single name: "." joined
\* with a name is the name itself.
Join(dir, name) == IF dir = <<".">> THEN name ELSE dir \o <<Sep>> \o name

\* filepath.Base(path) for a path that does not end in a separator.
BaseOf(path) ==
    LET seps == { i \in DOMAIN path : path[i] = Sep }
    IN  IF seps = {} THEN path ELSE SubSeq(path, MaxOf(seps) + 1, Len(path))

\* filepath.Ext(path): the suffix of the last element from its last dot on.
ExtOf(path) ==
    LET b    == BaseOf(path)
        dots == { i \in DOMAIN b : b[i] = "." }
    IN  IF dots = {} THEN <<>> ELSE SubSeq(b, MaxOf(dots), Len(b))

\* strings.ToLower on the letters the file names use.
LowerChar(c) ==
    CASE c = "J" -> "j" [] c = "P" -> "p" [] c = "G" -> "g" [] OTHER -> c

ToLower(str) == [i \in DOMAIN str |-> LowerChar(str[i])]

\* strings.Contains(str, sub)
Contains(str, sub) ==
    \E i \in 1..(Len(str) - Len(sub) + 1) : SubSeq(str, i, i + Len(sub) - 1) = sub

\* filepath.Match(pattern, name) for patterns of literals, '?' and '*': a
\* '*' matches any run of non-separator characters, a '?' one of them.
RECURSIVE Match(_, _)
Match(pattern, name) ==
    IF pattern = <<>> THEN name = <<>>
    ELSE IF Head(pattern) = "*"
      THEN \E n \in 0..Len(name) :
              /\ \A i \in 1..n : name[i] # Sep
              /\ Match(Tail(pattern), SubSeq(name, n + 1, Len(name)))
    ELSE /\ name # <<>>
         /\ \/ Head(pattern) = "?" /\ Head(name) # Sep
            \/ Head(pattern) = Head(name)
         /\ Match(Tail(pattern), Tail(name))

shouldExclude_GlobOnly(path, patterns) ==
    \E i \in DOMAIN patterns : Match(patterns[i], BaseOf(path))

\* shouldExclude(path, excludePatterns)
shouldExclude(path, patterns) ==
    \E i \in DOMAIN patterns :
        \/ Match(patterns[i], BaseOf(path))
        \/ Contains(path, patterns[i])

\* main(): validExts, the lower-cased image and video extensions.
validExts == { <<".", "j", "p", "g">>, <<".", "m", "p", "4">> }

\* main(): the exclusion patterns when --exclude is not given.
DefaultExclude == << <<".", "*">> >>

\* The values --exclude can give: nothing, a literal directory name, a
\* fragment of a path, a glob on file names next to a literal.
ExcludeChoices ==
    { DefaultExclude,
      <<>>,
      << <<"q">> >>,
      << <<"p", Sep>> >>,
      << <<"r", "*">>, <<"q">> >> }

\* The values of --source: the current directory and a named directory.
SourceChoices == { <<".">>, <<"s">> }

\* The source tree on disk: for each directory, by its path relative to the
\* root (a sequence of names), its entries as os.ReadDir and filepath.WalkDir
\* list them, sorted by name.
\*     .g/x.jpg   .t.jpg   n.txt   p/.h/z.jpg   p/q/w.JPG   p/y.jpg   r.jpg
DirEnt(name, isDir) == [name |-> name, isDir |-> isDir]

JpgName(stem) == stem \o <<".", "j", "p", "g">>

ReadDir(rel) ==
    CASE rel = <<>> ->
            << DirEnt(<<".", "g">>, TRUE), DirEnt(JpgName(<<".", "t">>), FALSE),
               DirEnt(<<"n", ".", "t", "x", "t">>, FALSE), DirEnt(<<"p">>, TRUE),
               DirEnt(JpgName(<<"r">>), FALSE) >>
      [] rel = << <<".", "g">> >> -> << DirEnt(JpgName(<<"x">>), FALSE) >>
      [] rel = << <<"p">> >> ->
            << DirEnt(<<".", "h">>, TRUE), DirEnt(<<"q">>, TRUE),
               DirEnt(JpgName(<<"y">>), FALSE) >>
      [] rel = << <<"p">>, <<".", "h">> >> -> << DirEnt(JpgName(<<"z">>), FALSE) >>
      [] rel = << <<"p">>, <<"q">> >> -> << DirEnt(<<"w", ".", "J", "P", "G">>, FALSE) >>
      [] OTHER -> <<>>

\* An entry the traversal has to visit: its path as the traversal builds it
\* (filepath.Join of the parent's path and the name), its names below the
\* root, and whether it is a directory.
Entry(path, rel, isDir) == [path |-> path, rel |-> rel, isDir |-> isDir]

\* The root as filepath.WalkDir first visits it: the source string itself.
RootEntry(src) == Entry(src, <<>>, TRUE)

\* The entries of directory e, each joined to e's path.
Children(e) ==
    LET ents == ReadDir(e.rel)
    IN  [i \in DOMAIN ents |->
            Entry(Join(e.path, ents[i].name), Append(e.rel, ents[i].name), ents[i].isDir)]

DirAction_NeverSkip(path, patterns) == "descend"

\* The WalkDir callback on a directory: filepath.SkipDir or nil.
DirAction(path, patterns) ==
    IF shouldExclude(path, patterns) THEN "SkipDir" ELSE "descend"

\* What both modes do with a file: continue / return nil, or pathChan <- path.
FileAction(path, patterns) ==
    IF shouldExclude(path, patterns) THEN "skip"
    ELSE IF ToLower(ExtOf(path)) \in validExts THEN "send"
    ELSE "skip"

\* ------------------------------------------------------ runDedup: pipeline
\* Paths the traversal of the source root visits (filepath.WalkDir walks in
\* lexical order); Spec walks the first NumPaths of them.
NumPaths == 2
WalkOrder ==
    << MkPath("x", "a", ".jpg"), MkPath("x", "a", ".mp4"),
       MkPath("x", "b", ".jpg"), MkPath("y", "a", ".jpg") >>

Full(ch, cap) == Len(ch) >= cap

\* The disk Spec runs on: what os.Stat reports as size and whether the
\* metadata lookup finds a creation date, per file.  x/a.jpg and x/a.mp4 tie
\* exactly, y/a.jpg outranks both.
DiskSize(p) == IF p.stem = "b" \/ p.dir = "y" THEN 2 ELSE 1
DiskMeta(p) == p.dir = "y" \/ p.stem = "b"

\* What et.ExtractMetadata(path) can give: no entry at all, an entry with
\* Err set, an entry with none of the four date fields, a date field that is
\* not a string, a string in none of the three layouts, a string that
\* parses to the zero time (0001-01-01 00:00:00), a string that parses to a
\* later time.
LookupOutcomes ==
    {"noMetas", "metaErr", "noField", "notString", "badLayout", "zeroDate", "date"}

\* time.Parse on the string of a date field: <<time, err == nil>>.  Times
\* are numbers, 0 the zero time.Time.
ParseDate(out) ==
    IF out = "date" THEN <<1, TRUE>>
    ELSE IF out = "zeroDate" THEN <<0, TRUE>>
    ELSE <<0, FALSE>>

getCreationDate_TrueWithoutDate(out) == <<ParseDate(out)[1], out \notin {"noMetas", "metaErr"}>>

\* getCreationDate: <<creation time, ok>> for a lookup outcome.
getCreationDate(out) ==
    IF out = "noMetas" THEN <<0, FALSE>>
    ELSE IF out = "metaErr" THEN <<0, FALSE>>
    ELSE IF out \in {"noField", "notString"} THEN <<0, FALSE>>
    ELSE IF ParseDate(out)[2] THEN <<ParseDate(out)[1], TRUE>>
    ELSE <<0, FALSE>>

\* The lookups of the disk Spec runs on.
DiskLookup ==
    [p \in Files |-> IF DiskMeta(p) THEN (IF p.stem = "b" THEN "zeroDate" ELSE "date")
                     ELSE IF p.ext = ".mp4" THEN "metaErr" ELSE "noMetas"]

\* The record worker() builds; without checkMeta getCreationDate is not
\* called and creationDate, hasMeta keep their zero values.
Scan(p) ==
    LET md == IF checkMeta THEN getCreationDate(lookup[p]) ELSE <<0, FALSE>>
    IN  FileInfo(p, DiskSize(p), md[2], md[1])

\* runDedup has passed its os.Stat(source) check and started the goroutines.
Spawned == mpc \notin {"stat", "failed"}

IsNotExist_Ignored == FALSE

\* _, err := os.Stat(source); os.IsNotExist(err)
IsNotExist == ~sourceExists

\* runDedup: os.Stat(source) reports that the source does not exist; the
\* error is returned (and main exits with status 1).
SourceMissing ==
    /\ mpc = "stat"
    /\ IsNotExist
    /\ mpc' = "failed"
    /\ UNCHANGED <<rvars, cfgvars, chanvars, wvars, ctrvars, cvars>>

\* runDedup from the channel creation to the call of deduplicate: the
\* "Counting files" event, the forwarder, walkFiles, the workers (each
\* counted in wg before it is started) and the closer.
StartPipeline ==
    /\ mpc = "stat"
    /\ ~IsNotExist
    /\ progChan' = progChan + 1
    /\ wpc' = [w \in Workers |-> "init"]
    /\ wg' = wg + NumWorkers
    /\ mpc' = "reduce"
    /\ UNCHANGED <<et, closed, rvars, cfgvars, toWalk, enqueued, doneSent, pathChan, pathClosed, resultChan, resultClosed,
                   sendOnClosed, winfo, ctrvars, cvars>>

\* walkFiles: "pathChan <- path" for the next visited file.
WalkSend ==
    /\ Spawned
    /\ toWalk # <<>>
    /\ ~Full(pathChan, PathChanCap)
    /\ pathChan' = Append(pathChan, Head(toWalk))
    /\ enqueued' = Append(enqueued, Head(toWalk))
    /\ toWalk' = Tail(toWalk)
    /\ UNCHANGED <<rvars, cfgvars, doneSent, pathClosed, resultChan, resultClosed, sendOnClosed,
                   progChan, wvars, ctrvars, cvars, mpc>>

\* walkFiles: the deferred close(pathChan) when the traversal returns.
WalkClose ==
    /\ Spawned
    /\ toWalk = <<>>
    /\ ~pathClosed
    /\ pathClosed' = TRUE
    /\ UNCHANGED <<rvars, cfgvars, toWalk, enqueued, doneSent, pathChan, resultChan, resultClosed,
                   sendOnClosed, progChan, wvars, ctrvars, cvars, mpc>>

NewExiftool_Shared(w) == 1

\* exiftool.NewExiftool() starts a new exiftool process and returns a new
\* client for it: the client is named after the goroutine that made the call.
NewExiftool(w) == w

\* The worker goroutine's exiftool.NewExiftool(): on failure it goes on to
\* report the failure and return, on success it keeps the client in its
\* local et and enters worker().
WorkerInit(w) ==
    /\ wpc[w] = "init"
    /\ \E ok \in BOOLEAN :
          /\ wpc' = [wpc EXCEPT ![w] = IF ok THEN "pull" ELSE "initErr"]
          /\ et' = IF ok THEN [et EXCEPT ![w] = NewExiftool(w)] ELSE et
    /\ UNCHANGED <<closed, rvars, cfgvars, chanvars, winfo, wg, ctrvars, cvars, mpc>>

\* "progChan <- ...worker init failed..." then return: wg.Done() runs.
WorkerInitFailed(w) ==
    /\ wpc[w] = "initErr"
    /\ progChan < ProgChanCap
    /\ progChan' = progChan + 1
    /\ wpc' = [wpc EXCEPT ![w] = "initFailed"]
    /\ wg' = wg - 1
    /\ UNCHANGED <<et, closed, rvars, cfgvars, toWalk, enqueued, doneSent, pathChan, pathClosed, resultChan, resultClosed,
                   sendOnClosed, winfo, ctrvars, cvars, mpc>>

\* failedScan.Add(1)
StatErrorCount_Forgotten(n) == n

StatErrorCount(n) == n + 1

\* A worker goroutine has returned: its wg.Done() has run.
Exited(w) == wpc[w] \in {"exited", "initFailed"}

\* worker(): one path received from pathChan, os.Stat and the FileInfo.
WorkerPull(w) ==
    /\ wpc[w] = "pull"
    /\ pathChan # <<>>
    /\ pathChan' = Tail(pathChan)
    /\ LET path == Head(pathChan) IN
       \/ /\ failedScan' = StatErrorCount(failedScan)
          /\ statFailed' = statFailed \cup {path}
          /\ wpc' = [wpc EXCEPT ![w] = "scanErr"]
          /\ winfo' = [winfo EXCEPT ![w] = path]
       \/ /\ winfo' = [winfo EXCEPT ![w] = Scan(path)]
          /\ wpc' = [wpc EXCEPT ![w] = "result"]
          /\ UNCHANGED <<failedScan, statFailed>>
    /\ UNCHANGED <<et, closed, rvars, cfgvars, toWalk, enqueued, doneSent, pathClosed, resultChan, resultClosed,
                   sendOnClosed, progChan, wg, processed, unique, copied, failedCopy, cvars, mpc>>

\* worker(): the error event after a failed stat, then the next path.
WorkerScanError(w) ==
    /\ wpc[w] = "scanErr"
    /\ progChan < ProgChanCap
    /\ progChan' = progChan + 1
    /\ wpc' = [wpc EXCEPT ![w] = "pull"]
    /\ winfo' = [winfo EXCEPT ![w] = NoInfo]
    /\ UNCHANGED <<et, closed, rvars, cfgvars, toWalk, enqueued, doneSent, pathChan, pathClosed, resultChan, resultClosed,
                   sendOnClosed, wg, ctrvars, cvars, mpc>>

\* worker(): "resultChan <- info" and processed.Add(1).  A send on a closed
\* channel panics.
WorkerSendResult(w) ==
    /\ wpc[w] = "result"
    /\ resultClosed \/ ~Full(resultChan, ResultChanCap)
    /\ sendOnClosed' = (sendOnClosed \/ resultClosed)
    /\ resultChan' = IF resultClosed THEN resultChan ELSE Append(resultChan, winfo[w])
    /\ processed' = IF resultClosed THEN processed ELSE processed + 1
    /\ wpc' = [wpc EXCEPT ![w] = IF resultClosed THEN "panic" ELSE "progress"]
    /\ winfo' = [winfo EXCEPT ![w] = NoInfo]
    /\ UNCHANGED <<et, closed, rvars, cfgvars, toWalk, enqueued, doneSent, pathChan, pathClosed, resultClosed, progChan,
                   wg, unique, copied, failedScan, failedCopy, statFailed, cvars, mpc>>

\* worker(): the progress event after a record was pushed, then the next path.
WorkerProgress(w) ==
    /\ wpc[w] = "progress"
    /\ progChan < ProgChanCap
    /\ progChan' = progChan + 1
    /\ wpc' = [wpc EXCEPT ![w] = "pull"]
    /\ UNCHANGED <<et, closed, rvars, cfgvars, toWalk, enqueued, doneSent, pathChan, pathClosed, resultChan, resultClosed,
                   sendOnClosed, winfo, wg, ctrvars, cvars, mpc>>

\* worker(): "for path := range pathChan" ends when the channel is closed and
\* drained; the deferred et.Close() and wg.Done() run as the goroutine returns.
WorkerExit(w) ==
    /\ wpc[w] = "pull"
    /\ pathChan = <<>>
    /\ pathClosed
    /\ wpc' = [wpc EXCEPT ![w] = "exited"]
    /\ closed' = closed \cup {et[w]}
    /\ wg' = wg - 1
    /\ UNCHANGED <<et, rvars, cfgvars, chanvars, winfo, ctrvars, cvars, mpc>>

\* The closer goroutine's wg.Wait() has returned.
WaitReturned_OffByOne == wg <= 1

WaitReturned_Never == FALSE

WaitReturned == wg = 0

\* go func() { wg.Wait(); close(resultChan) }()
CloseResults ==
    /\ Spawned
    /\ WaitReturned
    /\ ~resultClosed
    /\ resultClosed' = TRUE
    /\ UNCHANGED <<rvars, cfgvars, toWalk, enqueued, doneSent, pathChan, pathClosed, resultChan, sendOnClosed,
                   progChan, wvars, ctrvars, cvars, mpc>>

\* deduplicate(): one iteration of "for info := range resultChan".
ReducerRecv ==
    /\ mpc = "reduce"
    /\ resultChan # <<>>
    /\ Reduce(Head(resultChan))
    /\ resultChan' = Tail(resultChan)
    /\ UNCHANGED <<enableDedup, loopVarPerIter, pending, cfgvars, toWalk, enqueued, doneSent, pathChan, pathClosed,
                   resultClosed, sendOnClosed, progChan, wvars, ctrvars, cvars, mpc>>

AfterReduce_AlwaysCopy(plan) == "copyFiles"

\* runDedup after deduplicate: "if planOnly { ...; return nil }", else copyFiles.
AfterReduce(plan) == IF plan THEN "emitDone" ELSE "copyFiles"

RangeEnded_OnEmpty == resultChan = <<>>

\* "for info := range resultChan" ends: the channel is closed and drained.
RangeEnded == resultChan = <<>> /\ resultClosed

\* deduplicate() returns when resultChan is closed and drained; runDedup
\* stores unique and goes to the plan summary or to copyFiles.
ReducerReturn ==
    /\ mpc = "reduce"
    /\ RangeEnded
    /\ unique' = Cardinality(DOMAIN dedup)
    /\ mpc' = AfterReduce(planOnly)
    /\ UNCHANGED <<rvars, cfgvars, chanvars, wvars, processed, copied, failedScan, failedCopy,
                   statFailed, cvars>>

\* copyFiles(): one goroutine per map entry is started, then wg.Wait().
StartCopies ==
    /\ mpc = "copyFiles"
    /\ cpc' = [k \in DOMAIN dedup |-> "acquire"]
    /\ mpc' = "wait"
    /\ UNCHANGED <<rvars, cfgvars, chanvars, wvars, ctrvars, sem, copyFate, destOf, stamped>>

PermitFree_Unbounded == TRUE

\* "sem <- struct{}{}" can proceed: the buffer of capacity parallel has room.
PermitFree == sem < CopyParallel

\* copy goroutine: "sem <- struct{}{}".
CopyAcquire(k) ==
    /\ cpc[k] = "acquire"
    /\ PermitFree
    /\ sem' = sem + 1
    /\ cpc' = [cpc EXCEPT ![k] = "io"]
    /\ UNCHANGED <<rvars, cfgvars, chanvars, wvars, ctrvars, copyFate, destOf, stamped, mpc>>

CopyFailures == {"open", "mkdir", "create", "copy"}

\* The --dest argument.
DestRoot == "dest"

DestPath_AlwaysTree(fi, flat) == <<DestRoot>> \o fi.RelPath

\* destPath: filepath.Join(dest, filepath.Base(fi.Path)) with oneDir,
\* filepath.Join(dest, fi.RelPath) without; a path is its sequence of elements.
DestPath(fi, flat) ==
    IF flat THEN <<DestRoot>> \o Base(fi.Path) ELSE <<DestRoot>> \o fi.RelPath

CountCopy_AlwaysCopied(fate, c, f) == IF fate = "ok" THEN <<c + 1, f>> ELSE <<c + 1, f + 1>>

\* The counters after a copy goroutine's open / mkdir / create / io.Copy
\* ended as fate: <<copied, failedCopy>>.
CountCopy(fate, c, f) == IF fate = "ok" THEN <<c + 1, f>> ELSE <<c, f + 1>>

RecordAfterCopy_ClearedOnFailure(mem, a, fate) ==
    IF fate = "ok" THEN mem ELSE Store(mem, a, [mem[a] EXCEPT !.Size = 0])

\* The records in memory after the copy goroutine of the entry that points
\* to address a has run: it reads fi.Path, fi.RelPath, fi.HasMeta and
\* fi.CreationDate and writes none of them.
RecordAfterCopy(mem, a, fate) == mem

ShouldStamp_AnyMeta(check, fi) == check /\ fi.HasMeta

\* "if checkMeta && fi.HasMeta && !fi.CreationDate.IsZero()": os.Chtimes is
\* called on the destination.
ShouldStamp(check, fi) == check /\ fi.HasMeta /\ fi.CreationDate # 0

\* copy goroutine: os.Open, os.MkdirAll, os.Create, io.Copy; the first one
\* that fails ends the attempt.  destPath is computed once the source is
\* open, from the record the map entry points to.  After a successful
\* io.Copy os.Chtimes may be called; its error is not looked at.
CopyIO(k) ==
    /\ cpc[k] = "io"
    /\ \E fate \in CopyFailures \cup {"ok"} :
          /\ copyFate' = Put(copyFate, k, fate)
          /\ destOf' = IF fate = "open" THEN destOf
                                        ELSE Put(destOf, k, DestPath(Survivor(k), oneDir))
          /\ IF fate = "ok" /\ ShouldStamp(checkMeta, Survivor(k))
                THEN \E res \in {"ok", "failed"} : stamped' = Put(stamped, k, res)
                ELSE stamped' = stamped
          /\ copied' = CountCopy(fate, copied, failedCopy)[1]
          /\ failedCopy' = CountCopy(fate, copied, failedCopy)[2]
          /\ cells' = RecordAfterCopy(cells, dedup[k], fate)
    /\ cpc' = [cpc EXCEPT ![k] = "emit"]
    /\ UNCHANGED <<enableDedup, loopVarPerIter, dedup, stats, received, pending, cfgvars,
                   chanvars, wvars, processed, unique, failedScan, statFailed, sem, mpc>>

ReleasePermit_OnSuccessOnly(fate, s) == IF fate = "ok" THEN s - 1 ELSE s

\* "defer func() { <-sem }()": the permit count after a copy goroutine
\* returns, whatever way its attempt ended.
ReleasePermit(fate, s) == s - 1

\* copy goroutine: its progress or error event, then the deferred permit
\* release and wg.Done().
CopyEmit(k) ==
    /\ cpc[k] = "emit"
    /\ progChan < ProgChanCap
    /\ progChan' = progChan + 1
    /\ sem' = ReleasePermit(copyFate[k], sem)
    /\ cpc' = [cpc EXCEPT ![k] = "done"]
    /\ UNCHANGED <<rvars, cfgvars, toWalk, enqueued, doneSent, pathChan, pathClosed, resultChan, resultClosed,
                   sendOnClosed, wvars, ctrvars, copyFate, destOf, stamped, mpc>>

CopiesJoined_NoWait == TRUE

CopiesJoined_FirstDone == \E k \in DOMAIN cpc : cpc[k] = "done"

\* copyFiles(): wg.Wait() returns when every copy goroutine has returned.
CopiesJoined == \A k \in DOMAIN cpc : cpc[k] = "done"

CopyWait ==
    /\ mpc = "wait"
    /\ CopiesJoined
    /\ mpc' = "emitDone"
    /\ UNCHANGED <<rvars, cfgvars, chanvars, wvars, ctrvars, cvars>>

\* runDedup: "progChan <- progressMsg{done: true, ...}" and return nil.
EmitDone ==
    /\ mpc = "emitDone"
    /\ progChan < ProgChanCap
    /\ progChan' = progChan + 1
    /\ doneSent' = doneSent + 1
    /\ mpc' = "returned"
    /\ UNCHANGED <<rvars, cfgvars, toWalk, enqueued, pathChan, pathClosed, resultChan, resultClosed,
                   sendOnClosed, wvars, ctrvars, cvars>>

\* The forwarder goroutine hands the oldest event to the UI program.
SinkConsume ==
    /\ progChan > 0
    /\ progChan' = progChan - 1
    /\ UNCHANGED <<rvars, cfgvars, toWalk, enqueued, doneSent, pathChan, pathClosed, resultChan, resultClosed,
                   sendOnClosed, wvars, ctrvars, cvars, mpc>>

\* The pipeline variables when runDedup is called: no goroutine exists, no
\* event has been sent.  paths is what walkFiles will have to visit.
InitPipeline(paths) ==
    /\ toWalk = paths
    /\ enqueued = <<>>
    /\ doneSent = 0
    /\ pathChan = <<>>
    /\ pathClosed = FALSE
    /\ resultChan = <<>>
    /\ resultClosed = FALSE
    /\ sendOnClosed = FALSE
    /\ progChan = 0
    /\ wpc = [w \in Workers |-> "unborn"]
    /\ winfo = [w \in Workers |-> NoInfo]
    /\ wg = 0
    /\ et = [w \in Workers |-> 0]
    /\ closed = {}
    /\ mpc = "stat"
    /\ processed = 0 /\ unique = 0 /\ copied = 0 /\ failedScan = 0 /\ failedCopy = 0
    /\ statFailed = {}
    /\ cpc = EmptyMap
    /\ sem = 0
    /\ copyFate = EmptyMap
    /\ destOf = EmptyMap
    /\ stamped = EmptyMap

Init ==
    /\ enableDedup \in BOOLEAN
    /\ loopVarPerIter \in BOOLEAN
    /\ planOnly \in BOOLEAN
    /\ checkMeta \in BOOLEAN
    /\ dedup = EmptyMap
    /\ cells = EmptyMap
    /\ stats = ZeroStats
    /\ received = <<>>
    /\ pending = {}
    /\ oneDir = FALSE
    /\ source = <<"s">>
    /\ recursive = TRUE
    /\ excludePatterns = DefaultExclude
    /\ sourceExists \in BOOLEAN
    /\ rootReadable = TRUE
    /\ lookup = DiskLookup
    /\ InitPipeline(SubSeq(WalkOrder, 1, NumPaths))

\* Every step of a run on an existing source that is not the progress
\* sink's.
RunNext ==
    \/ StartPipeline
    \/ WalkSend
    \/ WalkClose
    \/ \E w \in Workers : WorkerInit(w)
    \/ \E w \in Workers : WorkerInitFailed(w)
    \/ \E w \in Workers : WorkerPull(w)
    \/ \E w \in Workers : WorkerScanError(w)
    \/ \E w \in Workers : WorkerSendResult(w)
    \/ \E w \in Workers : WorkerProgress(w)
    \/ \E w \in Workers : WorkerExit(w)
    \/ CloseResults
    \/ ReducerRecv
    \/ ReducerReturn
    \/ StartCopies
    \/ \E k \in DOMAIN cpc : CopyAcquire(k)
    \/ \E k \in DOMAIN cpc : CopyIO(k)
    \/ \E k \in DOMAIN cpc : CopyEmit(k)
    \/ CopyWait
    \/ EmitDone

\* Every step of the pipeline that is not the progress sink's.
PipelineNext == SourceMissing \/ RunNext

Next == PipelineNext \/ SinkConsume

Spec == Init /\ [][Next]_vars


\* ------------------------------------------------ SpecWalk: the enumerator
\* walkFiles step by step on the source tree: toWalk holds the entries the
\* traversal has still to visit, first the root, and a path is put on
\* pathChan together with its entry.  Spec runs on a tree whose traversal
\* visits accepted files only, so that its walkFiles is WalkSend alone.

\* Non-recursive mode: os.ReadDir(source); an error ends walkFiles.
WalkReadDir ==
    /\ Spawned
    /\ ~recursive
    /\ toWalk # <<>>
    /\ Head(toWalk).rel = <<>>
    /\ toWalk' = IF rootReadable THEN Children(Head(toWalk)) ELSE <<>>
    /\ UNCHANGED <<rvars, cfgvars, enqueued, doneSent, pathChan, pathClosed, resultChan, resultClosed,
                   sendOnClosed, progChan, wvars, ctrvars, cvars, mpc>>

ListAction_Descend(e, patterns) == IF e.isDir THEN "descend" ELSE FileAction(e.path, patterns)

\* Non-recursive mode: what the loop over the entries does with one of them.
ListAction(e, patterns) == IF e.isDir THEN "skip" ELSE FileAction(e.path, patterns)

\* Non-recursive mode: an entry the loop passes over with "continue", or a
\* file whose extension is not accepted.
WalkListSkip ==
    /\ Spawned
    /\ ~recursive
    /\ toWalk # <<>>
    /\ Head(toWalk).rel # <<>>
    /\ ListAction(Head(toWalk), excludePatterns) # "send"
    /\ toWalk' = IF ListAction(Head(toWalk), excludePatterns) = "descend"
                   THEN Children(Head(toWalk)) \o Tail(toWalk)
                   ELSE Tail(toWalk)
    /\ UNCHANGED <<rvars, cfgvars, enqueued, doneSent, pathChan, pathClosed, resultChan, resultClosed,
                   sendOnClosed, progChan, wvars, ctrvars, cvars, mpc>>

\* Recursive mode: the WalkDir callback on a directory.  On filepath.SkipDir
\* WalkDir does not read the directory; otherwise its entries are visited
\* next, before the rest.  A root that cannot be read has no entries: the
\* callback is called again with the error and returns nil.
WalkDirEntry ==
    /\ Spawned
    /\ recursive
    /\ toWalk # <<>>
    /\ Head(toWalk).isDir
    /\ toWalk' = IF DirAction(Head(toWalk).path, excludePatterns) = "SkipDir"
                    \/ (Head(toWalk).rel = <<>> /\ ~rootReadable)
                   THEN Tail(toWalk)
                   ELSE Children(Head(toWalk)) \o Tail(toWalk)
    /\ UNCHANGED <<rvars, cfgvars, enqueued, doneSent, pathChan, pathClosed, resultChan, resultClosed,
                   sendOnClosed, progChan, wvars, ctrvars, cvars, mpc>>

\* Recursive mode: the WalkDir callback on a file it does not send.
WalkFileSkip ==
    /\ Spawned
    /\ recursive
    /\ toWalk # <<>>
    /\ ~Head(toWalk).isDir
    /\ FileAction(Head(toWalk).path, excludePatterns) = "skip"
    /\ toWalk' = Tail(toWalk)
    /\ UNCHANGED <<rvars, cfgvars, enqueued, doneSent, pathChan, pathClosed, resultChan, resultClosed,
                   sendOnClosed, progChan, wvars, ctrvars, cvars, mpc>>

\* Either mode: a file that passes the filters is sent.
WalkFileSend ==
    /\ toWalk # <<>>
    /\ ~Head(toWalk).isDir
    /\ IF recursive THEN FileAction(Head(toWalk).path, excludePatterns) = "send"
                    ELSE ListAction(Head(toWalk), excludePatterns) = "send"
    /\ WalkSend

\* A worker's "for path := range pathChan" receives the next path; what the
\* worker does with it is left to Spec.
PathRecv ==
    /\ Spawned
    /\ pathChan # <<>>
    /\ pathChan' = Tail(pathChan)
    /\ UNCHANGED <<rvars, cfgvars, toWalk, enqueued, doneSent, pathClosed, resultChan, resultClosed,
                   sendOnClosed, progChan, wvars, ctrvars, cvars, mpc>>

InitWalk ==
    /\ enableDedup = TRUE
    /\ loopVarPerIter \in BOOLEAN
    /\ planOnly = FALSE
    /\ checkMeta = TRUE
    /\ dedup = EmptyMap
    /\ cells = EmptyMap
    /\ stats = ZeroStats
    /\ received = <<>>
    /\ pending = {}
    /\ oneDir = FALSE
    /\ source \in SourceChoices
    /\ recursive \in BOOLEAN
    /\ excludePatterns \in ExcludeChoices
    /\ sourceExists = TRUE
    /\ rootReadable \in BOOLEAN
    /\ lookup = DiskLookup
    /\ InitPipeline(<<RootEntry(source)>>)

NextWalk ==
    \/ StartPipeline
    \/ WalkReadDir
    \/ WalkListSkip
    \/ WalkDirEntry
    \/ WalkFileSkip
    \/ WalkFileSend
    \/ WalkClose
    \/ PathRecv

SpecWalk == InitWalk /\ [][NextWalk]_vars

\* ------------------------------------------- SpecLive: runs under fairness
\* runDedup on an existing source with fair scheduling: as long as some
\* goroutine of the pipeline can take a step one of them eventually does, and
\* the forwarder keeps handing events to the UI.  Every goroutine takes
\* finitely many steps, so this is no more than the Go scheduler gives each
\* of them.  The runs are those with deduplication, with and without --plan.
InitLive ==
    /\ enableDedup = TRUE
    /\ loopVarPerIter = TRUE
    /\ planOnly \in BOOLEAN
    /\ checkMeta = TRUE
    /\ dedup = EmptyMap
    /\ cells = EmptyMap
    /\ stats = ZeroStats
    /\ received = <<>>
    /\ pending = {}
    /\ oneDir = FALSE
    /\ source = <<"s">>
    /\ recursive = TRUE
    /\ excludePatterns = DefaultExclude
    /\ sourceExists = TRUE
    /\ rootReadable = TRUE
    /\ lookup = DiskLookup
    /\ InitPipeline(SubSeq(WalkOrder, 1, NumPaths))

NextLive == RunNext \/ SinkConsume

Fairness == WF_vars(RunNext) /\ WF_vars(SinkConsume)

SpecLive == InitLive /\ [][NextLive]_vars /\ Fairness

\* ------------------------------------------- SpecScan: the metadata lookups
\* The scan of a plan run, from the source check to the done event, on disks
\* whose metadata lookups end in each of the ways getCreationDate tells
\* apart, with and without metadata checking.

\* The disks: the one of Spec, and those on which every lookup ends alike.
LookupChoices == {DiskLookup} \cup { [p \in Files |-> out] : out \in LookupOutcomes }

InitScan ==
    /\ enableDedup = TRUE
    /\ loopVarPerIter = TRUE
    /\ planOnly = TRUE
    /\ checkMeta \in BOOLEAN
    /\ dedup = EmptyMap
    /\ cells = EmptyMap
    /\ stats = ZeroStats
    /\ received = <<>>
    /\ pending = {}
    /\ oneDir = FALSE
    /\ source = <<"s">>
    /\ recursive = TRUE
    /\ excludePatterns = DefaultExclude
    /\ sourceExists = TRUE
    /\ rootReadable = TRUE
    /\ lookup \in LookupChoices
    /\ InitPipeline(SubSeq(WalkOrder, 1, NumPaths))

NextScan ==
    \/ StartPipeline
    \/ WalkSend
    \/ WalkClose
    \/ \E w \in Workers : WorkerInit(w)
    \/ \E w \in Workers : WorkerInitFailed(w)
    \/ \E w \in Workers : WorkerPull(w)
    \/ \E w \in Workers : WorkerScanError(w)
    \/ \E w \in Workers : WorkerSendResult(w)
    \/ \E w \in Workers : WorkerProgress(w)
    \/ \E w \in Workers : WorkerExit(w)
    \/ CloseResults
    \/ ReducerRecv
    \/ ReducerReturn
    \/ EmitDone
    \/ SinkConsume

SpecScan == InitScan /\ [][NextScan]_vars

\* ------------------------------------------------ SpecCopy: the copy stage
\* copyFiles and the end of runDedup, started where deduplicate has returned
\* the map of some sequence of records of the disk, in either mode.  Besides
\* copyFiles of main.go it has the early return of the later revision of
\* copyFiles (part_001), which gives up when the destination root cannot be
\* created.

\* Longest input sequence SpecCopy starts from.
MaxCopyInputs == 2

\* The record a worker built for file p of the disk.
DiskInfo(p) == Scan(p)

\* The sequences of records of distinct files, up to MaxCopyInputs long.
CopyInputs ==
    UNION { { [i \in 1..n |-> DiskInfo(f[i])] :
                f \in { g \in [1..n -> Files] : \A i, j \in 1..n : g[i] = g[j] => i = j } }
            : n \in 0..MaxCopyInputs }

\* Later revision of copyFiles: os.MkdirAll(cfg.Dest) fails; an error event
\* is sent and copyFiles returns without starting a copy.
CopyDestFailed ==
    /\ mpc = "copyFiles"
    /\ progChan < ProgChanCap
    /\ progChan' = progChan + 1
    /\ mpc' = "emitDone"
    /\ UNCHANGED <<rvars, cfgvars, toWalk, enqueued, doneSent, pathChan, pathClosed, resultChan, resultClosed,
                   sendOnClosed, wvars, ctrvars, cvars>>

\* runDedup at the call of copyFiles: everything enumerated has been scanned
\* and reduced, the events sent so far have been consumed.
InitCopy ==
    /\ enableDedup \in BOOLEAN
    /\ loopVarPerIter \in BOOLEAN
    /\ oneDir \in BOOLEAN
    /\ planOnly = FALSE
    /\ checkMeta \in BOOLEAN
    /\ source = <<"s">>
    /\ recursive = TRUE
    /\ excludePatterns = DefaultExclude
    /\ sourceExists = TRUE
    /\ rootReadable = TRUE
    /\ lookup = DiskLookup
    /\ pending = {}
    /\ received \in CopyInputs
    /\ LET f == Fold(enableDedup, loopVarPerIter, received, Len(received))
       IN  /\ dedup = f.dedup
           /\ cells = f.cells
           /\ stats = f.stats
           /\ unique = Cardinality(DOMAIN f.dedup)
    /\ processed = Len(received)
    /\ enqueued = [i \in DOMAIN received |-> received[i].Path]
    /\ doneSent = 0
    /\ toWalk = <<>>
    /\ pathChan = <<>>
    /\ pathClosed = TRUE
    /\ resultChan = <<>>
    /\ resultClosed = TRUE
    /\ sendOnClosed = FALSE
    /\ progChan = 0
    /\ wpc = [w \in Workers |-> "exited"]
    /\ winfo = [w \in Workers |-> NoInfo]
    /\ wg = 0
    /\ et = [w \in Workers |-> NewExiftool(w)]
    /\ closed = { NewExiftool(w) : w \in Workers }
    /\ mpc = "copyFiles"
    /\ copied = 0 /\ failedScan = 0 /\ failedCopy = 0
    /\ statFailed = {}
    /\ cpc = EmptyMap
    /\ sem = 0
    /\ copyFate = EmptyMap
    /\ destOf = EmptyMap
    /\ stamped = EmptyMap

NextCopy ==
    \/ StartCopies
    \/ CopyDestFailed
    \/ \E k \in DOMAIN cpc : CopyAcquire(k)
    \/ \E k \in DOMAIN cpc : CopyIO(k)
    \/ \E k \in DOMAIN cpc : CopyEmit(k)
    \/ CopyWait
    \/ EmitDone
    \/ SinkConsume

SpecCopy == InitCopy /\ [][NextCopy]_vars

\* ------------------------------------------------- SpecReduce: the reducer
\* Inputs: the records of any set of files with distinct paths.
InputSets ==
    { S \in SUBSET AllInfos : \A r1, r2 \in S : r1.Path = r2.Path => r1 = r2 }

InitReduce ==
    /\ enableDedup \in BOOLEAN
    /\ loopVarPerIter \in BOOLEAN
    /\ dedup = EmptyMap
    /\ cells = EmptyMap
    /\ stats = ZeroStats
    /\ received = <<>>
    /\ pending \in InputSets
    /\ planOnly = FALSE
    /\ checkMeta = TRUE
    /\ oneDir = FALSE
    /\ source = <<"s">>
    /\ recursive = TRUE
    /\ excludePatterns = DefaultExclude
    /\ sourceExists = TRUE
    /\ rootReadable = TRUE
    /\ lookup = DiskLookup
    /\ InitPipeline(<<>>)

\* Records arrive in any order.
Deliver ==
    \E rec \in pending :
        /\ pending' = pending \ {rec}
        /\ Reduce(rec)
        /\ UNCHANGED <<enableDedup, loopVarPerIter, pvars>>

NextReduce == Deliver

SpecReduce == InitReduce /\ [][NextReduce]_vars

\* --------------------------------------------------- helpers for the claims
Range(seq) == { seq[i] : i \in DOMAIN seq }

RECURSIVE SumSize(_)
SumSize(S) ==
    IF S = {} THEN 0
    ELSE LET r == CHOOSE x \in S : TRUE IN r.Size + SumSize(S \ {r})

\* Sum of the sizes of the records stored in the map, entry by entry.
RECURSIVE SumEntries(_)
SumEntries(K) ==
    IF K = {} THEN 0
    ELSE LET k == CHOOSE x \in K : TRUE IN Survivor(k).Size + SumEntries(K \ {k})

\* The map as its readers see it: key -> record.
Contents(m, mem) == [k \in DOMAIN m |-> mem[m[k]]]

\* Every arrival order of the records of seq.
Orders(seq) ==
    LET n == Len(seq)
        bij == { f \in [1..n -> 1..n] : \A i, j \in 1..n : f[i] = f[j] => i = j }
    IN  { [i \in 1..n |-> seq[f[i]]] : f \in bij }

\* The record stored under key k after the step.
SurvivorNext(k) == cells'[dedup'[k]]

\* The record the last step delivered.
Incoming == received'[Len(received')]
Stepped == Len(received') = Len(received) + 1

\* ------------------------------------------------------------------ claims

\* C1: with deduplication on, once every record is consumed, the survivor of
\* each groupKey is a record of that group that no record of the group
\* outranks (metadata first, then size), whatever the arrival order.
C1_SurvivorIsBest ==
    (enableDedup /\ pending = {}) =>
        \A r \in Range(received) :
            /\ r.BaseName \in DOMAIN dedup
            /\ Survivor(r.BaseName) \in Range(received)
            /\ Survivor(r.BaseName).BaseName = r.BaseName
            /\ ~(r.HasMeta /\ ~Survivor(r.BaseName).HasMeta)
            /\ (r.HasMeta = Survivor(r.BaseName).HasMeta
                    => r.Size <= Survivor(r.BaseName).Size)

\* C1 restricted to builds in which every iteration has its own loop variable.
C1_PerIterationBuild == loopVarPerIter => C1_SurvivorIsBest

\* C2: with deduplication on, an incoming record whose key has a survivor
\* replaces it exactly when the priority rule says so; with no survivor it
\* becomes the survivor.
C2_ReplaceIff ==
    [][ (enableDedup /\ Stepped) =>
          LET k == Incoming.BaseName IN
          IF k \in DOMAIN dedup
            THEN IF shouldReplace(Incoming, Survivor(k))
                   THEN SurvivorNext(k) = Incoming
                   ELSE SurvivorNext(k) = Survivor(k)
            ELSE k \in DOMAIN dedup' /\ SurvivorNext(k) = Incoming ]_vars

C2_PerIterationBuild ==
    [][ loopVarPerIter =>
        ((enableDedup /\ Stepped) =>
          LET k == Incoming.BaseName IN
          IF k \in DOMAIN dedup
            THEN IF shouldReplace(Incoming, Survivor(k))
                   THEN SurvivorNext(k) = Incoming
                   ELSE SurvivorNext(k) = Survivor(k)
            ELSE k \in DOMAIN dedup' /\ SurvivorNext(k) = Incoming) ]_vars

\* C3: the final SurvivorMap is the same for every arrival order of a fixed
\* input set.
C3_OrderIndependent ==
    pending = {} =>
        \A o \in Orders(received) :
            LET f == Fold(enableDedup, loopVarPerIter, o, Len(o))
            IN  Contents(f.dedup, f.cells) = Contents(dedup, cells)

\* C3 restricted to builds in which every iteration has its own loop variable.
C3_PerIterationBuild == loopVarPerIter => C3_OrderIndependent

\* C4: an incoming record that ties exactly (same metadata status, same size)
\* with the survivor of its group never replaces it.
C4_TieKeepsFirst ==
    [][ (enableDedup /\ Stepped /\ Incoming.BaseName \in DOMAIN dedup
           /\ Incoming.HasMeta = Survivor(Incoming.BaseName).HasMeta
           /\ Incoming.Size = Survivor(Incoming.BaseName).Size)
        => SurvivorNext(Incoming.BaseName) = Survivor(Incoming.BaseName) ]_vars

C4_PerIterationBuild ==
    [][ (loopVarPerIter /\ enableDedup /\ Stepped /\ Incoming.BaseName \in DOMAIN dedup
           /\ Incoming.HasMeta = Survivor(Incoming.BaseName).HasMeta
           /\ Incoming.Size = Survivor(Incoming.BaseName).Size)
        => SurvivorNext(Incoming.BaseName) = Survivor(Incoming.BaseName) ]_vars

\* C5: after every record, TotalSize is the sum of the sizes of all records
\* reduced so far and UniqueSize the sum of the sizes of the records stored
\* in the SurvivorMap.
C5_SizeConservation ==
    /\ stats.TotalSize = SumSize(Range(received))
    /\ stats.UniqueSize = SumEntries(DOMAIN dedup)

C5_PerIterationBuild == loopVarPerIter => C5_SizeConservation

\* C6: with deduplication off, the map has exactly one entry per input
\* record, stored under that record's path, and UniqueSize = TotalSize.
C6_NoDedupAdditive ==
    ~enableDedup =>
        /\ DOMAIN dedup = { r.Path : r \in Range(received) }
        /\ Cardinality(DOMAIN dedup) = Len(received)
        /\ \A r \in Range(received) : Survivor(r.Path) = r
        /\ stats.UniqueSize = stats.TotalSize

C6_PerIterationBuild == loopVarPerIter => C6_NoDedupAdditive

\* The parts of C6 that do not read the stored records.
C6_KeysAndSizes ==
    ~enableDedup =>
        /\ DOMAIN dedup = { r.Path : r \in Range(received) }
        /\ Cardinality(DOMAIN dedup) = Len(received)
        /\ stats.UniqueSize = stats.TotalSize

\* The records the workers have pushed or are about to push.
Pushed ==
    Range(resultChan) \cup Range(received)
        \cup { winfo[w] : w \in { v \in Workers : wpc[v] = "result" } }

Walked == Range(SubSeq(WalkOrder, 1, NumPaths))

\* C7: a failed stat is counted once in failedScan, pushes no record, and
\* does not end the worker; once the reducer has returned, every other walked
\* path has been reduced.
C7_StatFailureIsolated ==
    /\ failedScan = Cardinality(statFailed)
    /\ \A r \in Pushed : r.Path \notin statFailed
    /\ \A w \in Workers : wpc[w] = "exited" => (pathClosed /\ pathChan = <<>>)
    /\ (mpc # "reduce" /\ statFailed # {}) =>
          /\ { r.Path : r \in Range(received) } = Walked \ statFailed
          /\ Len(received) = NumPaths - failedScan
          /\ processed = Len(received)

C7_Witness ==
    /\ mpc = "returned"
    /\ failedScan = 1
    /\ Len(received) = NumPaths - 1
    /\ Len(received) >= 1

\* C8: a copy that fails at open, mkdir, create or copy adds one to
\* failedCopy and nothing to copied, and every survivor's copy has run to its
\* own end when the copy stage has returned.
C8_CopyFailureIsolated ==
    /\ failedCopy = Cardinality({ k \in DOMAIN copyFate : copyFate[k] \in CopyFailures })
    /\ copied = Cardinality({ k \in DOMAIN copyFate : copyFate[k] = "ok" })
    /\ DOMAIN copyFate \subseteq DOMAIN dedup
    /\ (mpc \in {"emitDone", "returned"} /\ ~planOnly) => DOMAIN copyFate = DOMAIN dedup

C8_Witness ==
    /\ mpc = "returned"
    /\ failedCopy = 1
    /\ copied = 1
    /\ \E k1, k2 \in DOMAIN copyFate : copyFate[k1] \in CopyFailures /\ copyFate[k2] = "ok"

\* C9: with the progress sink not consuming, the pipeline is never stalled:
\* until runDedup has returned some stage can take a step of its own.
C9_NeverStalledBySink == (mpc \notin {"returned", "failed"}) => ENABLED PipelineNext

\* The only stalls are those of a full progress channel.
C9_StallsOnlyOnFullProgChan ==
    (mpc \notin {"returned", "failed"} /\ progChan < ProgChanCap) => ENABLED PipelineNext

\* C10: resultChan is closed only after every worker goroutine has returned:
\* no worker sends on the closed channel and deduplicate returns only after
\* the last worker.
C10_CloseAfterWorkers ==
    /\ resultClosed => \A w \in Workers : Exited(w)
    /\ ~sendOnClosed
    /\ mpc \in {"copyFiles", "wait", "emitDone", "returned"} => \A w \in Workers : Exited(w)

C10_Witness ==
    /\ resultClosed
    /\ mpc # "reduce"
    /\ Len(received) = NumPaths
    /\ \A w \in Workers : wpc[w] = "exited"

\* The copy stage has been entered: copyFiles has been called or one of its
\* goroutines exists.
CopyStageEntered == mpc \in {"copyFiles", "wait"} \/ DOMAIN cpc # {}

\* C11: when the copy stage is entered, every record a worker pushed has been
\* consumed by the reducer: resultChan is empty, no worker holds a record or
\* can still push one, and as many records were reduced as were pushed.
C11_CopyAfterReduce ==
    CopyStageEntered =>
        /\ resultChan = <<>>
        /\ resultClosed
        /\ \A w \in Workers : Exited(w)
        /\ Len(received) = processed

C11_Witness ==
    /\ \E k \in DOMAIN cpc : cpc[k] = "io"
    /\ Len(received) = NumPaths
    /\ processed = NumPaths

\* The copy goroutines that hold a permit: between "sem <- struct{}{}" and
\* the deferred "<-sem".
Holding == { k \in DOMAIN cpc : cpc[k] \in {"io", "emit"} }

\* C12: at every moment the copy goroutines holding a permit are as many as
\* the permits taken and at most CopyParallel.
C12_PermitBound ==
    /\ Cardinality(Holding) = sem
    /\ Cardinality(Holding) <= CopyParallel

C12_Witness ==
    /\ Cardinality(Holding) = CopyParallel
    /\ \E k \in DOMAIN cpc : cpc[k] = "acquire"

\* C13: once copyFiles has returned (the done event is about to be sent or
\* has been sent), every survivor's copy goroutine has finished, by success
\* or by failure, and no permit is held.
C13_ReturnAfterAllCopies ==
    (mpc \in {"emitDone", "returned"} /\ ~planOnly) =>
        /\ DOMAIN cpc = DOMAIN dedup
        /\ \A k \in DOMAIN cpc : cpc[k] = "done"
        /\ sem = 0
        /\ copied + failedCopy = Cardinality(DOMAIN dedup)

C13_Witness ==
    /\ mpc = "emitDone"
    /\ ~planOnly
    /\ Cardinality(DOMAIN cpc) >= 2
    /\ \A k \in DOMAIN cpc : cpc[k] = "done"

\* C14: once a worker's initialization has failed, the run is aborted: it
\* does not go on to the copy stage or to the done event and a normal return.
C14_InitFailureAborts ==
    (\E w \in Workers : wpc[w] \in {"initErr", "initFailed"}) =>
        mpc \notin {"copyFiles", "wait", "emitDone", "returned"}

\* C15: when the source root does not exist, runDedup does nothing but return
\* the error: no goroutine is started, nothing is enumerated, scanned, reduced
\* or copied, no event is sent and every counter stays zero.
C15_MissingSourceStopsRun ==
    ~sourceExists =>
        /\ mpc \in {"stat", "failed"}
        /\ \A w \in Workers : wpc[w] = "unborn"
        /\ wg = 0
        /\ enqueued = <<>> /\ pathChan = <<>> /\ ~pathClosed
        /\ resultChan = <<>> /\ ~resultClosed
        /\ received = <<>> /\ dedup = EmptyMap
        /\ cpc = EmptyMap /\ copyFate = EmptyMap /\ sem = 0
        /\ progChan = 0
        /\ processed = 0 /\ unique = 0 /\ copied = 0 /\ failedScan = 0 /\ failedCopy = 0

C15_Witness == ~sourceExists /\ mpc = "failed"

\* C16: when walkFiles cannot read the source root, in either mode, it
\* enqueues nothing and the failure is reported: counted in failedScan and
\* sent as an error event after the "Counting files" event.
C16_RootErrorReported ==
    (~rootReadable /\ pathClosed) =>
        /\ enqueued = <<>>
        /\ failedScan = 1
        /\ progChan >= 2

\* The part of C16 that holds: nothing is enqueued.
C16_NothingEnqueued == ~rootReadable => enqueued = <<>>

\* C17: every path put on pathChan, in either mode, is a non-directory entry
\* whose lower-cased extension is accepted and which no exclusion pattern
\* glob-matches by base name or occurs in as a substring.
C17_EnqueuedPassFilters ==
    \A i \in DOMAIN enqueued :
        /\ ~enqueued[i].isDir
        /\ ToLower(ExtOf(enqueued[i].path)) \in validExts
        /\ \A j \in DOMAIN excludePatterns :
              /\ ~Match(excludePatterns[j], BaseOf(enqueued[i].path))
              /\ ~Contains(enqueued[i].path, excludePatterns[j])

C17_Witness ==
    /\ pathClosed
    /\ excludePatterns = << <<"p", Sep>> >>
    /\ Len(enqueued) >= 2

\* The files of the source tree below directory rel, by their names below
\* the root.
RECURSIVE FilesUnder(_)
FilesUnder(rel) ==
    LET ents == ReadDir(rel)
    IN  UNION { IF ents[i].isDir THEN FilesUnder(Append(rel, ents[i].name))
                                 ELSE { Append(rel, ents[i].name) } : i \in DOMAIN ents }

\* The path the traversal builds for the names rel below the root.
RECURSIVE PathOfRel(_, _)
PathOfRel(src, rel) ==
    IF rel = <<>> THEN src
    ELSE Join(PathOfRel(src, SubSeq(rel, 1, Len(rel) - 1)), rel[Len(rel)])

Hidden(name) == name[1] = "."

EnqueuedRels == { enqueued[i].rel : i \in DOMAIN enqueued }

NoDuplicates(seq) == \A i, j \in DOMAIN seq : seq[i] = seq[j] => i = j

\* The files C18 expects: accepted extension, no name on the way from the
\* root to the file starts with '.'.
Visible ==
    { f \in FilesUnder(<<>>) :
        /\ ToLower(ExtOf(f[Len(f)])) \in validExts
        /\ \A i \in DOMAIN f : ~Hidden(f[i]) }

\* C18: in recursive mode with the default patterns and a readable root,
\* whatever the source string, the finished traversal has enqueued exactly
\* the visible files, each once.
C18_DefaultEnumeratesVisible ==
    (recursive /\ excludePatterns = DefaultExclude /\ rootReadable /\ pathClosed) =>
        /\ EnqueuedRels = Visible
        /\ NoDuplicates(enqueued)

\* C18 for a source whose own name does not start with '.'.
C18_NamedRoot == (~Hidden(BaseOf(source))) => C18_DefaultEnumeratesVisible

\* No directory on the way from the root (included) to the file rel, the
\* file itself excluded, matches an exclusion pattern.
NoAncestorExcluded(rel) ==
    \A n \in 0..(Len(rel) - 1) :
        ~shouldExclude(PathOfRel(source, SubSeq(rel, 1, n)), excludePatterns)

\* C19: in recursive mode no path below a directory that matches an
\* exclusion pattern is ever enqueued, and when the traversal has finished
\* every file that passes the filters and lies under no such directory is.
C19_ExcludedDirPruned ==
    recursive =>
        /\ \A i \in DOMAIN enqueued : NoAncestorExcluded(enqueued[i].rel)
        /\ (pathClosed /\ rootReadable) =>
              \A f \in FilesUnder(<<>>) :
                  (NoAncestorExcluded(f)
                     /\ FileAction(PathOfRel(source, f), excludePatterns) = "send")
                  => f \in EnqueuedRels

C19_Witness ==
    /\ recursive
    /\ pathClosed
    /\ excludePatterns = DefaultExclude
    /\ << <<"p">>, JpgName(<<"y">>) >> \in EnqueuedRels
    /\ << <<".", "g">>, JpgName(<<"x">>) >> \notin EnqueuedRels
    /\ << <<"p">>, <<".", "h">>, JpgName(<<"z">>) >> \notin EnqueuedRels

\* C20: in non-recursive mode only direct entries of the root are enqueued,
\* and when the listing has finished every direct file entry that passes the
\* file filters of recursive mode is.
C20_NonRecursiveDirectOnly ==
    ~recursive =>
        /\ \A i \in DOMAIN enqueued : Len(enqueued[i].rel) = 1 /\ ~enqueued[i].isDir
        /\ NoDuplicates(enqueued)
        /\ (pathClosed /\ rootReadable) =>
              \A i \in DOMAIN ReadDir(<<>>) :
                  (~ReadDir(<<>>)[i].isDir
                     /\ FileAction(Join(source, ReadDir(<<>>)[i].name), excludePatterns) = "send")
                  => << ReadDir(<<>>)[i].name >> \in EnqueuedRels

C20_Witness ==
    /\ ~recursive
    /\ pathClosed
    /\ excludePatterns = <<>>
    /\ EnqueuedRels = { << JpgName(<<".", "t">>) >>, << JpgName(<<"r">>) >> }

\* runDedup is past deduplicate.
ReducerReturned == mpc \in {"copyFiles", "wait", "emitDone", "returned"}

\* C22: in plan-only mode runDedup goes from deduplicate to the done event:
\* copyFiles is never called (it alone creates the destination root), no copy
\* goroutine exists, copied and failedCopy stay 0.
C22_PlanSkipsCopy ==
    planOnly =>
        /\ mpc \notin {"copyFiles", "wait"}
        /\ cpc = EmptyMap
        /\ copyFate = EmptyMap
        /\ sem = 0
        /\ copied = 0 /\ failedCopy = 0

C22_Witness ==
    /\ planOnly
    /\ mpc = "returned"
    /\ Len(received) = NumPaths
    /\ DOMAIN dedup # {}

\* C24: when deduplicate has returned every enqueued path has been counted
\* once, as processed or as failedScan, and processed is the number of
\* records reduced, whichever workers failed to initialise.
C24_ScanAccounting ==
    ReducerReturned =>
        /\ processed + failedScan = Len(enqueued)
        /\ processed = Len(received)

\* C24 for the runs in which some worker entered worker().
C24_SomeWorkerInitialised ==
    (\E w \in Workers : wpc[w] = "exited") => C24_ScanAccounting

\* The parts of C24 that hold whatever the workers did.
C24_ProcessedIsReduced ==
    ReducerReturned => (processed = Len(received) /\ processed + failedScan <= Len(enqueued))

\* C26: after every record, the entry under each key holds a record that was
\* received with that key, and entries under different keys hold different
\* records.
C26_EntriesKeepTheirRecord ==
    /\ \A k \in DOMAIN dedup :
          /\ Survivor(k) \in Range(received)
          /\ KeyOf(enableDedup, Survivor(k)) = k
    /\ \A k1, k2 \in DOMAIN dedup : k1 # k2 => Survivor(k1) # Survivor(k2)

\* C26 restricted to builds in which every iteration has its own loop variable.
C26_PerIterationBuild == loopVarPerIter => C26_EntriesKeepTheirRecord

\* A step changes at most the entry of the incoming record's key.
C26_OtherEntriesUntouched ==
    [][ (loopVarPerIter /\ Stepped) =>
          \A k \in DOMAIN dedup :
              k # KeyOf(enableDedup, Incoming) => SurvivorNext(k) = Survivor(k) ]_vars

\* C27: after n records TotalImages + TotalVideos = n and
\* WithMeta + WithoutMeta = n, whatever became of each record.
C27_TotalsCountEveryRecord ==
    /\ stats.TotalImages + stats.TotalVideos = Len(received)
    /\ stats.WithMeta + stats.WithoutMeta = Len(received)
    /\ stats.TotalImages = Cardinality({ i \in DOMAIN received : received[i].IsImage })
    /\ stats.WithMeta = Cardinality({ i \in DOMAIN received : received[i].HasMeta })

\* Three records reduced into one group: a survivor, a replacement of it or
\* a discarded record.
C27_Witness ==
    /\ enableDedup
    /\ Len(received) = 3
    /\ Cardinality(DOMAIN dedup) = 1
    /\ stats.WithoutMeta >= 1 /\ stats.WithMeta >= 1
    /\ stats.TotalVideos = 1

\* C28: after every record UniqueImages is the number of image records in
\* the map and UniqueVideos the number of the others.
C28_UniqueTypeCounts ==
    /\ stats.UniqueImages = Cardinality({ k \in DOMAIN dedup : Survivor(k).IsImage })
    /\ stats.UniqueVideos = Cardinality({ k \in DOMAIN dedup : ~Survivor(k).IsImage })

\* C28 restricted to builds in which every iteration has its own loop variable.
C28_PerIterationBuild == loopVarPerIter => C28_UniqueTypeCounts

\* The part of C28 that does not read the stored records.
C28_SumIsEntries == stats.UniqueImages + stats.UniqueVideos = Cardinality(DOMAIN dedup)

\* C21: the destination path a copy goroutine computes is the destination
\* root followed by the file name of the record's source path in flatten
\* mode, and by the record's directory below the source root and its file
\* name in tree-preserving mode, in every interleaving of the copies.
C21_DestPathByMode ==
    /\ DOMAIN destOf = { k \in DOMAIN copyFate : copyFate[k] # "open" }
    /\ \A k \in DOMAIN destOf :
          LET p == Survivor(k).Path
          IN  destOf[k] = IF oneDir THEN <<DestRoot, p.stem, p.ext>>
                                    ELSE <<DestRoot, p.dir, p.stem, p.ext>>

C21_Witness ==
    /\ mpc = "returned"
    /\ oneDir
    /\ loopVarPerIter
    /\ \E k1, k2 \in DOMAIN destOf :
          /\ destOf[k1] = <<DestRoot, "b", ".jpg">>
          /\ destOf[k2] = <<DestRoot, "a", ".jpg">>
          /\ Survivor(k2).Path.dir = "y"

\* copyFiles has returned.
CopyStageReturned == mpc \in {"emitDone", "returned"} /\ ~planOnly

\* C23: when the copy stage has returned, copied + failedCopy is the number
\* of entries of the map, also when the destination root cannot be created.
C23_EverySurvivorCounted ==
    CopyStageReturned => copied + failedCopy = Cardinality(DOMAIN dedup)

\* C23 for the runs in which the copy goroutines were started.
C23_WhenCopiesStarted ==
    (CopyStageReturned /\ DOMAIN cpc = DOMAIN dedup) =>
        copied + failedCopy = Cardinality(DOMAIN dedup)

\* The map keys whose copy created its destination file.
Materialized == { k \in DOMAIN copyFate : copyFate[k] \in {"ok", "copy"} }

\* C25: no two survivors are written to the same destination path, in
\* either mode, with deduplication on or off.
C25_DistinctDestinations ==
    \A k1, k2 \in Materialized : k1 # k2 => destOf[k1] # destOf[k2]

\* C25 in tree-preserving mode, per-iteration loop variable.
C25_TreeModePerIteration == (loopVarPerIter /\ ~oneDir) => C25_DistinctDestinations

\* C25 with deduplication, per-iteration loop variable.
C25_DedupPerIteration == (loopVarPerIter /\ enableDedup) => C25_DistinctDestinations

\* C25 in flatten mode without deduplication, per-iteration loop variable.
C25_FlattenNoDedup == (loopVarPerIter /\ oneDir /\ ~enableDedup) => C25_DistinctDestinations

\* Some worker has initialised and entered worker().
SomeWorkerRuns ==
    \E w \in Workers : wpc[w] \in {"pull", "scanErr", "result", "progress", "exited"}

\* C29: under fair scheduling and a consuming sink, a run in which some
\* worker initialises reaches the done event, with pathChan closed, every
\* worker returned, resultChan closed, deduplicate and copyFiles returned.
C29_RunCompletes ==
    SomeWorkerRuns ~>
        ( /\ mpc = "returned"
          /\ pathClosed /\ pathChan = <<>>
          /\ \A w \in Workers : Exited(w)
          /\ resultClosed /\ resultChan = <<>>
          /\ CopiesJoined )

C29_Witness ==
    /\ mpc = "returned"
    /\ \E w \in Workers : wpc[w] = "initFailed"
    /\ \E w \in Workers : wpc[w] = "exited"
    /\ Len(received) = NumPaths
    /\ ~planOnly

\* C30: in every run the enumerator eventually has sent every path it
\* visits, the workers have taken them all and pathChan is closed, whatever
\* the number of workers that failed to initialise.
C30_EnumeratorFinishes ==
    <>(toWalk = <<>> /\ pathChan = <<>> /\ pathClosed)

\* C30 for the runs in which some worker initialises.
C30_WhenSomeWorkerRuns ==
    SomeWorkerRuns ~> (toWalk = <<>> /\ pathChan = <<>> /\ pathClosed)

\* The state C30 excludes: the enumerator blocked in "pathChan <- path" after
\* every worker goroutine has returned.
C30_NeverStuckOnFullQueue ==
    ~(toWalk # <<>> /\ Full(pathChan, PathChanCap) /\ \A w \in Workers : Exited(w))

\* ------------------------------------------------------------- permits
\* The copy goroutines that return in this step.
Returning == { k \in DOMAIN cpc \cap DOMAIN cpc' : cpc[k] = "emit" /\ cpc'[k] = "done" }

\* C31: a copy goroutine that took a permit gives it back exactly once,
\* however its attempt ended: the permits taken are at every moment those of
\* the goroutines between their acquire and their return, the step in which
\* a goroutine returns lowers the count by one after an attempt that ended
\* in success or in an open, mkdir, create or copy failure, no other step
\* lowers it, and none is taken once the copy stage has returned.
C31_PermitReleasedOnce ==
    /\ [](sem = Cardinality(Holding))
    /\ [](CopyStageReturned => sem = 0)
    /\ [][\A k \in Returning : copyFate[k] \in CopyFailures \cup {"ok"} /\ sem' = sem - 1]_vars
    /\ [][sem' < sem => Returning # {}]_vars

\* A copy failed and gave its permit back, and another copy holds it now.
C31_Witness ==
    \E k1, k2 \in DOMAIN cpc :
        /\ cpc[k1] = "done" /\ copyFate[k1] \in CopyFailures
        /\ cpc[k2] = "io"
        /\ sem = CopyParallel

\* ------------------------------------------------------- the done event
\* A goroutine that still has an event to send, or work that ends in one.
EventPending ==
    \/ \E w \in Workers : ~Exited(w)
    \/ \E k \in DOMAIN cpc : cpc[k] # "done"
    \/ mpc \in {"reduce", "copyFiles", "wait", "emitDone"}

\* C32: a run that got past the source check sends one done event and never
\* a second, and the done event is the last event: when it is sent every
\* worker and every copy goroutine has returned, so the scan and copy events
\* are all before it, and no later step puts an event on progChan.
C32_DoneIsLastEvent ==
    /\ [](doneSent <= 1)
    /\ <>(doneSent = 1)
    /\ [](doneSent = 1 <=> mpc = "returned")
    /\ [](doneSent = 1 => ~EventPending)
    /\ [][doneSent >= 1 => progChan' <= progChan]_vars

\* The done event has been sent after a scan error event, a worker
\* initialisation event and a copy error event, and is still on progChan.
C32_Witness ==
    /\ doneSent = 1
    /\ progChan >= 1
    /\ statFailed # {}
    /\ \E w \in Workers : wpc[w] = "initFailed"
    /\ \E k \in DOMAIN copyFate : copyFate[k] \in CopyFailures

\* ------------------------------------------------ the map after the reducer
\* C33: the survivor map, the records it points to and the statistics
\* change only in a step of the reducer that takes a record, and once
\* deduplicate has returned no step changes them: not the copy stage, not a
\* copy that succeeds or fails, not the summary.
C33_ReadOnlyAfterReduce ==
    /\ [][ReducerReturned => UNCHANGED <<dedup, cells, stats>>]_vars
    /\ [][(dedup' # dedup \/ cells' # cells \/ stats' # stats)
              => (mpc = "reduce" /\ mpc' = "reduce" /\ Stepped)]_vars

\* The run is over, one survivor was copied and another one failed, and the
\* map and the statistics are those the reducer built.
C33_Witness ==
    /\ mpc = "returned"
    /\ \E k \in DOMAIN copyFate : copyFate[k] = "ok"
    /\ \E k \in DOMAIN copyFate : copyFate[k] \in CopyFailures
    /\ LET f == Fold(enableDedup, loopVarPerIter, received, Len(received))
       IN  dedup = f.dedup /\ cells = f.cells /\ stats = f.stats

\* ------------------------------------------------------- metadata lookups
\* The lookup outcomes that recover no creation date.
FailedLookups == {"noMetas", "metaErr", "noField", "notString", "badLayout"}

\* C34: only a failed stat is a scan failure.  A path a worker took and
\* whose stat succeeded is pushed as a record whatever its metadata lookup
\* gave, so that a run whose paths were all taken ends with a record for each
\* path but those of the failed stats; when the lookup
\* failed or was empty, or metadata checking is off, the record has
\* HasMeta = FALSE and the zero creation time; and no record has a creation
\* time without HasMeta.
C34_LookupFailureIsNoScanFailure ==
    /\ failedScan = Cardinality(statFailed)
    /\ \A w \in Workers : wpc[w] = "result" => winfo[w] = Scan(winfo[w].Path)
    /\ \A r \in Pushed :
          /\ (~checkMeta \/ lookup[r.Path] \in FailedLookups)
                => (~r.HasMeta /\ r.CreationDate = 0)
          /\ r.CreationDate # 0 => r.HasMeta
    /\ (mpc = "returned" /\ toWalk = <<>> /\ pathChan = <<>>) =>
          /\ { r.Path : r \in Range(received) } = Walked \ statFailed
          /\ processed = NumPaths - failedScan

\* A run with metadata checking on has ended with no scan failure on a disk
\* where every lookup failed: every walked path was pushed without metadata.
C34_Witness ==
    /\ mpc = "returned"
    /\ checkMeta
    /\ \A p \in Walked : lookup[p] \in FailedLookups
    /\ failedScan = 0
    /\ Len(received) = NumPaths
    /\ \A r \in Range(received) : ~r.HasMeta /\ r.CreationDate = 0

\* ------------------------------------------------ destination timestamps
\* C35: the counters follow the copy of the bytes alone: copied counts the
\* survivors whose io.Copy succeeded and failedCopy the others, whether
\* os.Chtimes was called or not and whether it succeeded or failed; and
\* os.Chtimes is called only for a survivor whose bytes were copied, with
\* metadata checking on, on a record with HasMeta and a creation time that
\* is not the zero time.
C35_TimestampNeverCounts ==
    /\ copied = Cardinality({ k \in DOMAIN copyFate : copyFate[k] = "ok" })
    /\ failedCopy = Cardinality({ k \in DOMAIN copyFate : copyFate[k] \in CopyFailures })
    /\ \A k \in DOMAIN stamped :
          /\ k \in DOMAIN copyFate /\ copyFate[k] = "ok"
          /\ checkMeta
          /\ Survivor(k).HasMeta
          /\ Survivor(k).CreationDate # 0

\* The run is over: one survivor was copied and its os.Chtimes failed,
\* another with metadata but the zero time was copied without os.Chtimes;
\* both are counted as copied and none as failed.
C35_Witness ==
    /\ mpc = "returned"
    /\ \E k \in DOMAIN stamped : stamped[k] = "failed" /\ copyFate[k] = "ok"
    /\ \E k \in DOMAIN copyFate \ DOMAIN stamped :
          copyFate[k] = "ok" /\ Survivor(k).HasMeta /\ Survivor(k).CreationDate = 0
    /\ copied = 2
    /\ failedCopy = 0

\* ------------------------------------------------------ exiftool clients
\* A worker goroutine inside worker(): it may take a path and query its client.
InLoop(w) == wpc[w] \in {"pull", "scanErr", "result", "progress"}

\* The workers that query their client in this step: getCreationDate(et, path).
Querying == { w \in Workers : checkMeta /\ wpc[w] = "pull" /\ wpc'[w] = "result" }

\* C36: every worker that initialised has a client of its own: no two
\* workers hold the same client, a worker inside its loop holds an open
\* client, a query goes to a client that is open and that no other worker
\* holds, a client is closed by the worker that holds it, in the step in
\* which that worker leaves its loop, and a closed client belongs to a
\* worker that has returned.
C36_ClientPerWorker ==
    /\ [](\A v, w \in Workers : (v # w /\ et[v] # 0) => et[v] # et[w])
    /\ [](\A w \in Workers : InLoop(w) => (et[w] # 0 /\ et[w] \notin closed))
    /\ [](\A w \in Workers : et[w] \in closed => wpc[w] = "exited")
    /\ [][\A w \in Querying :
             et[w] \notin closed /\ \A v \in Workers \ {w} : et[v] # et[w]]_vars
    /\ [][\A c \in closed' \ closed :
             \E w \in Workers : /\ et[w] = c
                                /\ wpc[w] = "pull" /\ wpc'[w] = "exited"
                                /\ \A v \in Workers \ {w} : et[v] # c]_vars

\* One worker has returned and closed its client while another, with its
\* own open client, has queried it and holds the record.
C36_Witness ==
    /\ checkMeta
    /\ \E v, w \in Workers :
          /\ wpc[v] = "exited" /\ et[v] \in closed
          /\ wpc[w] = "result" /\ et[w] # 0 /\ et[w] \notin closed
          /\ et[v] # et[w]

====
